---- MODULE Spec2Model ----
(***************************************************************************)
(* A model of build.py, the driver of the two-stage LLVM/Clang toolchain   *)
(* build for Android: main(), the stage builds, the per-architecture       *)
(* runtime builds, and the SONAME normalization done while packaging.      *)
(*                                                                         *)
(* Strings that the code splits or tests with startswith are sequences of  *)
(* one-character strings; all other strings are TLA+ strings.  A           *)
(* dictionary is a function whose domain is its key set.                   *)
(***************************************************************************)
EXTENDS Integers, Sequences, FiniteSets, TLC

VARIABLES
    args,           \* the parsed command line (parse_args)
    host,           \* utils.build_os_type(): "linux-x86" or "darwin-x86"
    profiles,       \* names of the files in prebuilts/clang/host/linux-x86/profiles
    pc,             \* index of the next step of main() in Program
    status,         \* "running", "exit0" (main returned 0) or "error" (an exception left main)
    error,          \* the exception that left main, or "none"
    long_version,   \* main's local long_version ("none" before it is assigned)
    profdata,       \* main's local profdata ("none" before it is assigned, None when no file)
    calls,          \* every check_call made by invoke_cmake, in order
    installs,       \* every artifact set installed by a runtime build, in order
    removed,        \* install directories removed by main before building
    written,        \* files written into a working directory (NATIVE.cmake), each with
                    \* its text and the length of calls when it was written
    packaged,       \* hosts whose package_toolchain call ran, in order
    libdir,         \* the lib64 directory being normalized: file name -> entry
    libdir0,        \* libdir as it was when normalize_llvm_host_libs was called
    norm_host,      \* the host argument of normalize_llvm_host_libs
    visited,        \* libraries whose loop iteration has completed
    norm_status,    \* "running", "done" or "failed"
    norm_failed,    \* the library whose check raised, or "none"
    cache_rm,       \* every rm_cmake_cache call: the directory and the length of calls then
    orig_env,       \* the module-level ORIG_ENV dictionary
    notes,          \* the notes the runtime builds have logged, in order
    pkg,            \* the state of package_toolchain runs (PkgSpec), or "idle"
    mx              \* the state of the matrix enumerations (MatrixSpec), or "idle"

pipeVars == <<args, host, profiles, pc, status, error, long_version, profdata,
              calls, installs, removed, written, packaged, cache_rm, orig_env, notes>>
normVars == <<libdir, libdir0, norm_host, visited, norm_status, norm_failed>>
vars == <<args, host, profiles, pc, status, error, long_version, profdata,
          calls, installs, removed, written, packaged,
          libdir, libdir0, norm_host, visited, norm_status, norm_failed,
          cache_rm, orig_env, notes, pkg, mx>>

None == "None"

-----------------------------------------------------------------------------
(* Strings as character sequences. *)

S_arm == <<"a","r","m">>
S_aarch64 == <<"a","a","r","c","h","6","4">>
S_x86_64 == <<"x","8","6","_","6","4">>
S_i386 == <<"i","3","8","6">>
S_i686 == <<"i","6","8","6">>
S_mips == <<"m","i","p","s">>
S_mips64 == <<"m","i","p","s","6","4">>
S_linux_android == <<"-","l","i","n","u","x","-","a","n","d","r","o","i","d">>

\* str.startswith
StartsWith(s, p) == Len(s) >= Len(p) /\ SubSeq(s, 1, Len(p)) = p

\* The position of the first occurrence of character c in s, Len(s)+1 when none.
RECURSIVE FirstIndex(_, _, _)
FirstIndex(s, c, i) ==
    IF i > Len(s) THEN i
    ELSE IF s[i] = c THEN i
    ELSE FirstIndex(s, c, i + 1)

\* s.split(c)[0]
SplitHead(s, c) == SubSeq(s, 1, FirstIndex(s, c, 1) - 1)

\* dict[k] = v and dict.update(e)
Put(d, k, v) == [x \in DOMAIN d \cup {k} |-> IF x = k THEN v ELSE d[x]]
Update(d, e) == [x \in DOMAIN d \cup DOMAIN e |-> IF x \in DOMAIN e THEN e[x] ELSE d[x]]
EmptyDict == [x \in {} |-> None]

-----------------------------------------------------------------------------
(* Versions.  Version.inc of an install tree is an input of the run. *)

ClangVersion == [long |-> "6.0.2", short |-> <<"6",".","0">>, major |-> <<"6">>]

extract_clang_version(clang_install) == ClangVersion
extract_clang_long_version(clang_install) == extract_clang_version(clang_install).long

\* '%s.profdata' % version_str, found in the profiles directory or None
pgo_profdata_file(version_str, files) ==
    LET profdata_file == version_str \o ".profdata"
    IN  IF profdata_file \in files THEN profdata_file ELSE None

-----------------------------------------------------------------------------
(* The configuration matrix. *)

android_api(arch, platform) ==
    IF platform THEN "26"
    ELSE IF arch \in {S_arm, S_i386, S_mips} THEN "14"
    ELSE "21"

arch_from_triple_keep_i686(triple) == SplitHead(triple, "-")

arch_from_triple(triple) ==
    LET arch == SplitHead(triple, "-")
    IN  IF arch = S_i686 THEN S_i386 ELSE arch

\* os.path.join('lib64', 'clang', version, 'lib', 'linux', arch)
clang_resource_dir(version, arch) ==
    [base |-> <<"lib64", "clang", version, "lib", "linux">>, sub |-> arch]

\* The table of cross_compile_configs: (arch, ndk_arch, llvm_triple).
configs_mips64_first ==
    << [arch |-> S_arm, ndk_arch |-> "arm", llvm_triple |-> S_arm \o S_linux_android],
       [arch |-> S_aarch64, ndk_arch |-> "arm64", llvm_triple |-> S_aarch64 \o S_linux_android],
       [arch |-> S_x86_64, ndk_arch |-> "x86_64", llvm_triple |-> S_x86_64 \o S_linux_android],
       [arch |-> S_i386, ndk_arch |-> "x86", llvm_triple |-> S_i686 \o S_linux_android],
       [arch |-> S_mips64, ndk_arch |-> "mips64",
        llvm_triple |-> S_mips64 \o <<"e","l">> \o S_linux_android],
       [arch |-> S_mips, ndk_arch |-> "mips",
        llvm_triple |-> S_mips \o <<"e","l">> \o S_linux_android] >>

configs ==
    << [arch |-> S_arm, ndk_arch |-> "arm", llvm_triple |-> S_arm \o S_linux_android],
       [arch |-> S_aarch64, ndk_arch |-> "arm64", llvm_triple |-> S_aarch64 \o S_linux_android],
       [arch |-> S_x86_64, ndk_arch |-> "x86_64", llvm_triple |-> S_x86_64 \o S_linux_android],
       [arch |-> S_i386, ndk_arch |-> "x86", llvm_triple |-> S_i686 \o S_linux_android],
       [arch |-> S_mips, ndk_arch |-> "mips",
        llvm_triple |-> S_mips \o <<"e","l">> \o S_linux_android],
       [arch |-> S_mips64, ndk_arch |-> "mips64",
        llvm_triple |-> S_mips64 \o <<"e","l">> \o S_linux_android] >>

\* What the generator yields per architecture: (arch, llvm_triple, defines, cflags).
cross_compile_configs(stage2_install, platform) ==
    [i \in 1..Len(configs) |->
        [arch |-> configs[i].arch,
         llvm_triple |-> configs[i].llvm_triple,
         defines |-> [CMAKE_C_COMPILER |-> <<stage2_install, "bin", "clang">>,
                      CMAKE_CXX_COMPILER |-> <<stage2_install, "bin", "clang++">>],
         api |-> android_api(configs[i].arch, platform)]]

Archs == {configs[i].arch : i \in 1..Len(configs)}

-----------------------------------------------------------------------------
(* Paths of main(). *)

stage1_install == "stage1-install"
stage2_install == "stage2-install"
windows32_install == "windows-i386-install"
windows64_install == "windows-x86-install"
STAGE2_TARGETS == "AArch64;ARM;BPF;Mips;X86"

-----------------------------------------------------------------------------
(* The build engine. *)

\* subprocess.check_call raises CalledProcessError on a non-zero exit status.
check_call_ignores_status(ok) == FALSE

check_call_raises(ok) == ~ok

\* The check_calls of invoke_cmake: cmake, ninja and, when install, ninja install.
EngineCmds(install) ==
    IF install THEN <<"cmake", "ninja", "install">> ELSE <<"cmake", "ninja">>

out_path_without_mode(step) ==
    [pre |-> step.kind, arch |-> step.arch, suf |-> ""]

\* The working directory of a build step: utils.out_path('stage1'),
\* utils.out_path('lib', 'clangrt-' + arch), 'libfuzzer-' + arch + '-ndk-cxx', ...
out_path(step) ==
    CASE step.kind = "stage1" -> [pre |-> "stage1", arch |-> <<>>, suf |-> ""]
      [] step.kind = "stage2" -> [pre |-> "stage2", arch |-> <<>>, suf |-> ""]
      [] step.kind = "windows" ->
            [pre |-> IF step.ndk THEN "windows-i386" ELSE "windows-x86",
             arch |-> <<>>, suf |-> ""]
      [] step.kind = "crt" -> [pre |-> "lib/clangrt-", arch |-> step.arch, suf |-> ""]
      [] step.kind = "crt_host" ->
            [pre |-> "lib/clangrt-", arch |-> step.arch, suf |-> "-host"]
      [] step.kind = "fuzzer" ->
            [pre |-> "lib/libfuzzer-", arch |-> step.arch,
             suf |-> IF step.ndk THEN "-ndk-cxx" ELSE ""]
      [] step.kind = "omp" ->
            [pre |-> "lib/libomp-", arch |-> step.arch,
             suf |-> IF step.ndk THEN "-ndk-cxx" ELSE ""]

rm_cmake_cache_skipped(log, dir, n) == log

\* rm_cmake_cache(dir), called when n engine calls have been made
rm_cmake_cache(log, dir, n) == Append(log, [dir |-> dir, at |-> n])

\* stage2_extra_env (lines 820-821); every other caller passes no extra_env.
extra_env(step) ==
    IF step.kind = "stage2"
    THEN [LD_LIBRARY_PATH |-> <<stage1_install, "lib64">>]
    ELSE EmptyDict

env_merge_in_place(orig, extra) ==
    [env |-> Update(orig, extra), orig |-> Update(orig, extra)]

\* env = dict(ORIG_ENV); env.update(extra_env): the environment handed to
\* the engine and ORIG_ENV as it is afterwards.
env_merge(orig, extra) ==
    [env |-> Update(orig, extra), orig |-> orig]

\* The calls invoke_cmake makes when the engine fails its failAt-th command
\* (0: the engine fails none): it stops at the first check_call that raises.
RECURSIVE RunCalls(_, _, _, _, _)
RunCalls(cmds, i, failAt, step, defines) ==
    IF i > Len(cmds) THEN <<>>
    ELSE LET rec == [step |-> step, cmd |-> cmds[i], ok |-> (i # failAt),
                     defines |-> defines, cwd |-> out_path(step),
                     env |-> env_merge(orig_env, extra_env(step)).env]
         IN  IF check_call_raises(rec.ok) THEN <<rec>>
             ELSE <<rec>> \o RunCalls(cmds, i + 1, failAt, step, defines)

invoke_cmake(step, defines, install, failAt) ==
    RunCalls(EngineCmds(install), 1, failAt, step, defines)

\* Whether invoke_cmake left by an exception.
Raised(log) == log # <<>> /\ check_call_raises(log[Len(log)].ok)

FailPoints(install) == 0..Len(EngineCmds(install))

StepId(kind, arch, ndk) == [kind |-> kind, arch |-> arch, ndk |-> ndk]

host_is_linux(h) == h = "linux-x86"
host_is_darwin(h) == h = "darwin-x86"

\* A directory below an install tree: os.path.join(root, base..., sub).
Under(root, d) == [root |-> root, base |-> d.base, sub |-> d.sub]

-----------------------------------------------------------------------------
(* Configurations of the stage builds. *)

base_cmake_defines ==
    [CMAKE_BUILD_TYPE |-> "Release",
     LLVM_ENABLE_ASSERTIONS |-> "OFF",
     LLVM_ENABLE_THREADS |-> "OFF",
     LLVM_LIBDIR_SUFFIX |-> "64"]

\* The configuration build_llvm hands to invoke_cmake.
build_llvm_defines(targets, install_dir, extra_defines) ==
    Update(Update(base_cmake_defines,
                  [CMAKE_INSTALL_PREFIX |-> install_dir,
                   LLVM_TARGETS_TO_BUILD |-> targets,
                   LLVM_BUILD_LLVM_DYLIB |-> "ON"]),
           extra_defines)

build_llvm(step, targets, install_dir, extra_defines, failAt) ==
    invoke_cmake(step, build_llvm_defines(targets, install_dir, extra_defines),
                 TRUE, failAt)

stage1_extra_defines(build_llvm_tools, h) ==
    LET d0 == [LLVM_BUILD_RUNTIME |-> "ON",
               CLANG_ENABLE_ARCMT |-> "OFF",
               CLANG_ENABLE_STATIC_ANALYZER |-> "OFF",
               CMAKE_C_COMPILER |-> <<"clang-4393122", "bin", "clang">>,
               CMAKE_CXX_COMPILER |-> <<"clang-4393122", "bin", "clang++">>,
               LLVM_TOOL_CLANG_TOOLS_EXTRA_BUILD |-> "OFF",
               LLVM_TOOL_OPENMP_BUILD |-> "OFF",
               LLVM_BUILD_TOOLS |-> IF build_llvm_tools THEN "ON" ELSE "OFF",
               LLVM_ENABLE_LIBCXX |-> "ON",
               COMPILER_RT_BUILD_LIBFUZZER |-> "OFF"]
        d1 == IF host_is_linux(h)
              THEN Update(d0, [LIBCXX_ENABLE_ABI_LINKER_SCRIPT |-> "OFF",
                               LIBCXX_ENABLE_STATIC_ABI_LIBRARY |-> "ON"])
              ELSE d0
    IN  IF host_is_darwin(h)
        THEN Put(d1, "LLVM_BUILD_EXTERNAL_COMPILER_RT", "ON")
        ELSE d1

\* build_stage2 raises when it is asked to instrument and to use a profile.
stage2_never_raises(build_instrumented, profdata_file) == FALSE

stage2_raises(build_instrumented, profdata_file) ==
    profdata_file # None /\ build_instrumented

stage2_extra_defines_always_pgo(build_instrumented, profdata_file, h) ==
    [LLVM_BUILD_RUNTIME |-> "ON", LLVM_ENABLE_LIBCXX |-> "ON",
     LLVM_PROFDATA_FILE |-> profdata_file]

stage2_extra_defines_keeps_runtime(build_instrumented, profdata_file, h) ==
    LET d0 == [CMAKE_C_COMPILER |-> <<stage1_install, "bin", "clang">>,
               CMAKE_CXX_COMPILER |-> <<stage1_install, "bin", "clang++">>,
               LLVM_BUILD_RUNTIME |-> "ON",
               LLVM_ENABLE_LIBCXX |-> "ON",
               SANITIZER_ALLOW_CXXABI |-> "OFF",
               COMPILER_RT_BUILD_LIBFUZZER |-> "OFF"]
        d1 == IF build_instrumented
              THEN Update(d0, [LLVM_BUILD_INSTRUMENTED |-> "ON",
                               LLVM_PROFDATA |-> <<stage1_install, "bin", "llvm-profdata">>,
                               LLVM_ENABLE_LIBCXX |-> "OFF"])
              ELSE d0
        d2 == IF profdata_file # None
              THEN Put(d1, "LLVM_PROFDATA_FILE", profdata_file)
              ELSE d1
        d3 == IF host_is_linux(h)
              THEN Update(d2, [LIBCXX_ENABLE_STATIC_ABI_LIBRARY |-> "ON",
                               LIBCXX_ENABLE_ABI_LINKER_SCRIPT |-> "OFF"])
              ELSE d2
    IN  IF host_is_darwin(h)
        THEN Put(d3, "LLVM_BUILD_EXTERNAL_COMPILER_RT", "ON")
        ELSE d3

stage2_extra_defines(build_instrumented, profdata_file, h) ==
    LET d0 == [CMAKE_C_COMPILER |-> <<stage1_install, "bin", "clang">>,
               CMAKE_CXX_COMPILER |-> <<stage1_install, "bin", "clang++">>,
               LLVM_BUILD_RUNTIME |-> "ON",
               LLVM_ENABLE_LIBCXX |-> "ON",
               SANITIZER_ALLOW_CXXABI |-> "OFF",
               COMPILER_RT_BUILD_LIBFUZZER |-> "OFF"]
        d1 == IF build_instrumented
              THEN Update(d0, [LLVM_BUILD_INSTRUMENTED |-> "ON",
                               LLVM_PROFDATA |-> <<stage1_install, "bin", "llvm-profdata">>,
                               LLVM_ENABLE_LIBCXX |-> "OFF",
                               LLVM_BUILD_RUNTIME |-> "OFF"])
              ELSE d0
        d2 == IF profdata_file # None
              THEN Put(d1, "LLVM_PROFDATA_FILE", profdata_file)
              ELSE d1
        d3 == IF host_is_linux(h)
              THEN Update(d2, [LIBCXX_ENABLE_STATIC_ABI_LIBRARY |-> "ON",
                               LIBCXX_ENABLE_ABI_LINKER_SCRIPT |-> "OFF"])
              ELSE d2
    IN  IF host_is_darwin(h)
        THEN Put(d3, "LLVM_BUILD_EXTERNAL_COMPILER_RT", "ON")
        ELSE d3

windows_extra_defines(is_32_bit) ==
    LET d0 == [CMAKE_SYSTEM_NAME |-> "Windows",
               LLVM_BUILD_RUNTIME |-> "OFF",
               LLVM_TOOL_CLANG_TOOLS_EXTRA_BUILD |-> "ON",
               LLVM_TOOL_OPENMP_BUILD |-> "OFF"]
    IN  IF is_32_bit THEN Put(d0, "LLVM_LIBDIR_SUFFIX", "") ELSE d0

\* main raises when the profile is absent and --check-pgo-profile was given.
missing_profile_tolerated(profile, check_pgo_profile) == FALSE

missing_profile_is_fatal(profile, check_pgo_profile) ==
    profile = None /\ check_pgo_profile

-----------------------------------------------------------------------------
(* Where the runtime builds install. *)

\* crt_install: os.path.join(stage2_install, 'lib64', 'clang', long_version)
crt_install(version) ==
    Under(stage2_install, [base |-> <<"lib64", "clang", version.long>>, sub |-> <<>>])

runtime_lib_dir_by_arch_id(version, arch, llvm_triple, ndk_cxx) ==
    Under(stage2_install, clang_resource_dir(version.long, arch))

\* lib_dir of build_libfuzzers and build_libomp
runtime_lib_dir(version, arch, llvm_triple, ndk_cxx) ==
    LET triple_arch == arch_from_triple(llvm_triple)
        lib_subdir == IF ndk_cxx
                      THEN [base |-> <<"runtimes_ndk_cxx">>, sub |-> triple_arch]
                      ELSE clang_resource_dir(version.long, triple_arch)
    IN  Under(stage2_install, lib_subdir)

fuzzer_static_lib_filename_by_arch_id(arch) ==
    [pre |-> "libclang_rt.fuzzer-", arch |-> arch, suf |-> "-android.a"]

\* static_lib_filename of build_libfuzzers (lines 464-467)
fuzzer_static_lib_filename(arch) ==
    LET sarch == IF arch = S_i386 THEN S_i686 ELSE arch
    IN  [pre |-> "libclang_rt.fuzzer-", arch |-> sarch, suf |-> "-android.a"]

\* static_lib of build_libfuzzers (line 468): the built file that is copied
static_lib(arch, ndk_cxx) ==
    [dir |-> <<out_path(StepId("fuzzer", arch, ndk_cxx)), "lib", "linux">>,
     file |-> fuzzer_static_lib_filename(arch)]

Artifact(kind, arch, ndk, dir, file) ==
    [kind |-> kind, arch |-> arch, ndk |-> ndk, dir |-> dir, file |-> file]

-----------------------------------------------------------------------------
(* The steps of main(), in program order. *)

Step(op, i, ndk, target) == [op |-> op, i |-> i, ndk |-> ndk, target |-> target]

FanOut(op, ndk) == [i \in 1..Len(configs) |-> Step(op, i, ndk, "")]

\* logger().info('Building ... for %s', arch) at the head of a loop body
building_note(step) == [text |-> "Building", step |-> step]

libcxx_skip_note_logged ==
    <<[text |-> "Skipped", step |-> StepId("libcxx", <<>>, FALSE)]>>

\* What build_runtimes logs where the call of build_libcxx is commented out
\* (lines 840-842): nothing.
libcxx_skip_note == <<>>

\* build_runtimes: each library kind loops over the whole matrix in turn.
build_runtimes_steps ==
    FanOut("crt", FALSE)
    \o <<Step("crt_host", 0, FALSE, "")>>
    \o FanOut("fuzzer", FALSE) \o <<Step("fuzzer_headers", 0, FALSE, "")>>
    \o FanOut("fuzzer", TRUE) \o <<Step("fuzzer_headers", 0, TRUE, "")>>
    \o FanOut("omp", FALSE)
    \o FanOut("omp", TRUE)
    \o <<Step("asan_test", 0, FALSE, ""), Step("asan_map", 0, FALSE, "")>>

stage_steps_stage2_first ==
    << Step("rm_install", 0, FALSE, ""), Step("stage2", 0, FALSE, ""),
       Step("stage1", 0, FALSE, ""), Step("resolve", 0, FALSE, "") >>

\* The stage bootstrap of main: stage 1, the profile lookup, stage 2.
stage_steps ==
    << Step("rm_install", 0, FALSE, ""), Step("stage1", 0, FALSE, ""),
       Step("resolve", 0, FALSE, ""), Step("stage2", 0, FALSE, "") >>

do_build_always(a) == TRUE
do_build(a) == ~a.skip_build
do_package(a) == ~a.skip_package
need_windows(a, h) == host_is_linux(h) /\ ~a.no_build_windows
instrumented(a, h) == host_is_linux(h) /\ a.build_instrumented

main_steps(a, h) ==
    (IF do_build(a) THEN stage_steps ELSE <<>>)
    \o (IF do_build(a) /\ host_is_linux(h) THEN build_runtimes_steps ELSE <<>>)
    \o (IF do_build(a) /\ need_windows(a, h)
        THEN <<Step("windows", 0, FALSE, "windows-x86"),
               Step("windows", 0, FALSE, "windows-i386")>>
        ELSE <<>>)
    \o (IF do_package(a)
        THEN <<Step("package", 0, FALSE, h)>>
             \o (IF need_windows(a, h)
                 THEN <<Step("package", 0, FALSE, "windows-i386"),
                        Step("package", 0, FALSE, "windows-x86")>>
                 ELSE <<>>)
        ELSE <<>>)

Program == main_steps(args, host)

At(op) == status = "running" /\ pc <= Len(Program) /\ Program[pc].op = op

-----------------------------------------------------------------------------
(* The run of main(): one action per step. *)

Advance == pc' = pc + 1 /\ UNCHANGED <<status, error>>

Raise(e) == status' = "error" /\ error' = e /\ pc' = pc

\* The effect of one invoke_cmake on the call log and on the control flow.
Invoke(log) ==
    /\ calls' = calls \o log
    /\ orig_env' = env_merge(orig_env, extra_env(log[1].step)).orig
    /\ IF Raised(log) THEN Raise("CalledProcessError") ELSE Advance

\* main 1182-1185: remove the install trees of an earlier run.
RemoveInstallDirs ==
    /\ At("rm_install")
    /\ removed' = {stage2_install, windows32_install, windows64_install}
    /\ Advance
    /\ UNCHANGED <<args, host, profiles, long_version, profdata, calls, installs,
                   written, packaged>>
    /\ UNCHANGED normVars
    /\ UNCHANGED cache_rm
    /\ UNCHANGED <<pkg, mx>>
    /\ UNCHANGED orig_env
    /\ UNCHANGED notes

\* main 1189: build_stage1
BuildStage1 ==
    /\ At("stage1")
    /\ \E failAt \in FailPoints(TRUE) :
         Invoke(build_llvm(StepId("stage1", <<>>, FALSE), "X86", stage1_install,
                           stage1_extra_defines(instrumented(args, host), host),
                           failAt))
    /\ UNCHANGED <<args, host, profiles, long_version, profdata, installs, removed,
                   written, packaged>>
    /\ UNCHANGED normVars
    /\ UNCHANGED cache_rm
    /\ UNCHANGED <<pkg, mx>>
    /\ UNCHANGED notes

\* main 1192-1198: the stage-1 version and the profile named after it.
ResolveProfile ==
    /\ At("resolve")
    /\ long_version' = extract_clang_long_version(stage1_install)
    /\ profdata' = pgo_profdata_file(long_version', profiles)
    /\ IF missing_profile_is_fatal(profdata', args.check_pgo_profile)
       THEN Raise("RuntimeError: Profdata file does not exist")
       ELSE Advance
    /\ UNCHANGED <<args, host, profiles, calls, installs, removed, written, packaged>>
    /\ UNCHANGED normVars
    /\ UNCHANGED cache_rm
    /\ UNCHANGED <<pkg, mx>>
    /\ UNCHANGED orig_env
    /\ UNCHANGED notes

\* main 1200: build_stage2
BuildStage2 ==
    /\ At("stage2")
    /\ LET profdata_file == IF profdata = "none" THEN None ELSE profdata
       IN  IF stage2_raises(instrumented(args, host), profdata_file)
           THEN /\ Raise("RuntimeError: Cannot simultaneously instrument and use profiles")
                /\ UNCHANGED <<calls, orig_env>>
           ELSE \E failAt \in FailPoints(TRUE) :
                  Invoke(build_llvm(StepId("stage2", <<>>, FALSE), STAGE2_TARGETS,
                                    stage2_install,
                                    stage2_extra_defines(instrumented(args, host),
                                                         profdata_file, host),
                                    failAt))
    /\ UNCHANGED <<args, host, profiles, long_version, profdata, installs, removed,
                   written, packaged>>
    /\ UNCHANGED normVars
    /\ UNCHANGED cache_rm
    /\ UNCHANGED <<pkg, mx>>
    /\ UNCHANGED notes

\* One iteration of the loop of build_crts.
BuildCrt ==
    /\ At("crt")
    /\ LET version == extract_clang_version(stage2_install)
           cfg == cross_compile_configs(stage2_install, FALSE)[Program[pc].i]
           defines == Update(Update(cfg.defines,
                                    [CMAKE_INSTALL_PREFIX |-> crt_install(version),
                                     COMPILER_RT_BUILD_LIBFUZZER |-> "OFF"]),
                             base_cmake_defines)
       IN  \E failAt \in FailPoints(TRUE) :
             LET log == invoke_cmake(StepId("crt", cfg.arch, FALSE), defines, TRUE, failAt)
             IN  /\ Invoke(log)
                 /\ installs' = IF Raised(log) THEN installs
                                ELSE Append(installs,
                                            Artifact("crt", cfg.arch, FALSE,
                                                     crt_install(version), "compiler-rt"))
    /\ UNCHANGED <<args, host, profiles, long_version, profdata, removed, written,
                   packaged>>
    /\ UNCHANGED normVars
    /\ cache_rm' = rm_cmake_cache(cache_rm,
                                   out_path(StepId("crt",
                                     cross_compile_configs(stage2_install,
                                         FALSE)[Program[pc].i].arch,
                                     FALSE)),
                                   Len(calls))
    /\ UNCHANGED <<pkg, mx>>
    /\ notes' = Append(notes, building_note(StepId("crt", cross_compile_configs(stage2_install, FALSE)[Program[pc].i].arch, FALSE)))

\* build_crts_host_i686
BuildCrtHost ==
    /\ At("crt_host")
    /\ LET version == extract_clang_version(stage2_install)
           defines == Update(base_cmake_defines,
                             [CMAKE_INSTALL_PREFIX |-> crt_install(version),
                              COMPILER_RT_DEFAULT_TARGET_ONLY |-> "ON",
                              COMPILER_RT_ENABLE_WERROR |-> "ON"])
       IN  \E failAt \in FailPoints(TRUE) :
             LET log == invoke_cmake(StepId("crt_host", S_i386, FALSE), defines, TRUE,
                                     failAt)
             IN  /\ Invoke(log)
                 /\ installs' = IF Raised(log) THEN installs
                                ELSE Append(installs,
                                            Artifact("crt_host", S_i386, FALSE,
                                                     crt_install(version), "compiler-rt"))
    /\ UNCHANGED <<args, host, profiles, long_version, profdata, removed, written,
                   packaged>>
    /\ UNCHANGED normVars
    /\ cache_rm' = rm_cmake_cache(cache_rm,
                                   out_path(StepId("crt_host", S_i386, FALSE)),
                                   Len(calls))
    /\ UNCHANGED <<pkg, mx>>
    /\ UNCHANGED notes

\* One iteration of the loop of build_libfuzzers.
BuildLibfuzzer ==
    /\ At("fuzzer")
    /\ LET version == extract_clang_version(stage2_install)
           ndk_cxx == Program[pc].ndk
           cfg == cross_compile_configs(stage2_install, ~ndk_cxx)[Program[pc].i]
           defines == Update(cfg.defines, [ANDROID |-> "1",
                                           CMAKE_POLICY_DEFAULT_CMP0056 |-> "NEW"])
       IN  \E failAt \in FailPoints(FALSE) :
             LET log == invoke_cmake(StepId("fuzzer", cfg.arch, ndk_cxx), defines, FALSE,
                                     failAt)
             IN  /\ Invoke(log)
                 /\ installs' = IF Raised(log) THEN installs
                                ELSE Append(installs,
                                            Artifact("fuzzer", cfg.arch, ndk_cxx,
                                                     runtime_lib_dir(version, cfg.arch,
                                                                     cfg.llvm_triple,
                                                                     ndk_cxx),
                                                     "libFuzzer.a")
                                            @@ [src |-> static_lib(cfg.arch, ndk_cxx)])
    /\ UNCHANGED <<args, host, profiles, long_version, profdata, removed, written,
                   packaged>>
    /\ UNCHANGED normVars
    /\ cache_rm' = rm_cmake_cache(cache_rm,
                                   out_path(StepId("fuzzer",
                                     cross_compile_configs(stage2_install,
                                         ~Program[pc].ndk)[Program[pc].i].arch,
                                     Program[pc].ndk)),
                                   Len(calls))
    /\ UNCHANGED <<pkg, mx>>
    /\ notes' = Append(notes, building_note(StepId("fuzzer",
                                   cross_compile_configs(stage2_install,
                                       ~Program[pc].ndk)[Program[pc].i].arch,
                                   Program[pc].ndk)))

\* build_libfuzzers 481-488: the headers, after the loop.
InstallFuzzerHeaders ==
    /\ At("fuzzer_headers")
    /\ installs' = Append(installs,
                          Artifact("fuzzer_headers", <<>>, Program[pc].ndk,
                                   Under(stage2_install,
                                         [base |-> <<"prebuilt_include", "llvm", "lib",
                                                     "Fuzzer">>,
                                          sub |-> <<>>]),
                                   "*.h"))
    /\ Advance
    /\ UNCHANGED <<args, host, profiles, long_version, profdata, calls, removed,
                   written, packaged>>
    /\ UNCHANGED normVars
    /\ UNCHANGED cache_rm
    /\ UNCHANGED <<pkg, mx>>
    /\ UNCHANGED orig_env
    /\ UNCHANGED notes

\* One iteration of the loop of build_libomp.
BuildLibomp ==
    /\ At("omp")
    /\ LET version == extract_clang_version(stage2_install)
           ndk_cxx == Program[pc].ndk
           cfg == cross_compile_configs(stage2_install, ~ndk_cxx)[Program[pc].i]
           defines == Update(cfg.defines, [ANDROID |-> "1",
                                           CMAKE_BUILD_TYPE |-> "Release",
                                           LIBOMP_ENABLE_SHARED |-> "FALSE",
                                           CMAKE_POLICY_DEFAULT_CMP0056 |-> "NEW"])
       IN  \E failAt \in FailPoints(FALSE) :
             LET log == invoke_cmake(StepId("omp", cfg.arch, ndk_cxx), defines, FALSE,
                                     failAt)
             IN  /\ Invoke(log)
                 /\ installs' = IF Raised(log) THEN installs
                                ELSE Append(installs,
                                            Artifact("omp", cfg.arch, ndk_cxx,
                                                     runtime_lib_dir(version, cfg.arch,
                                                                     cfg.llvm_triple,
                                                                     ndk_cxx),
                                                     "libomp.a"))
    /\ UNCHANGED <<args, host, profiles, long_version, profdata, removed, written,
                   packaged>>
    /\ UNCHANGED normVars
    /\ cache_rm' = rm_cmake_cache(cache_rm,
                                   out_path(StepId("omp",
                                     cross_compile_configs(stage2_install,
                                         ~Program[pc].ndk)[Program[pc].i].arch,
                                     Program[pc].ndk)),
                                   Len(calls))
    /\ UNCHANGED <<pkg, mx>>
    /\ notes' = Append(notes, building_note(StepId("omp",
                                   cross_compile_configs(stage2_install,
                                       ~Program[pc].ndk)[Program[pc].i].arch,
                                   Program[pc].ndk)))

\* build_asan_test: touch test/<arch>/bin/asan_test.
BuildAsanTest ==
    /\ At("asan_test")
    /\ installs' = Append(installs,
                          Artifact("asan_test", <<>>, FALSE,
                                   Under(stage2_install,
                                         [base |-> <<"test">>, sub |-> <<>>]),
                                   "asan_test"))
    /\ Advance
    /\ UNCHANGED <<args, host, profiles, long_version, profdata, calls, removed,
                   written, packaged>>
    /\ UNCHANGED normVars
    /\ UNCHANGED cache_rm
    /\ UNCHANGED <<pkg, mx>>
    /\ UNCHANGED orig_env
    /\ notes' = notes \o libcxx_skip_note

\* build_asan_map_files: mapfile.create_map_file reads the built libraries and
\* raises when one is missing.
BuildAsanMapFiles ==
    /\ At("asan_map")
    /\ \E ok \in BOOLEAN :
         IF ok
         THEN /\ installs' = Append(installs,
                                    Artifact("asan_map", <<>>, FALSE,
                                             Under(stage2_install,
                                                   clang_resource_dir(
                                                       extract_clang_long_version(
                                                           stage2_install), <<>>)),
                                             "*.map.txt"))
              /\ Advance
         ELSE /\ Raise("IOError")
              /\ UNCHANGED installs
    /\ UNCHANGED <<args, host, profiles, long_version, profdata, calls, removed,
                   written, packaged>>
    /\ UNCHANGED normVars
    /\ UNCHANGED cache_rm
    /\ UNCHANGED <<pkg, mx>>
    /\ UNCHANGED orig_env
    /\ UNCHANGED notes

native_cmake_text_stage1(native_clang_install) ==
    [CMAKE_C_COMPILER |-> <<stage1_install, "bin", "clang">>,
     CMAKE_CXX_COMPILER |-> <<stage1_install, "bin", "clang++">>]

\* The two set() lines of NATIVE.cmake (lines 626-632)
native_cmake_text(native_clang_install) ==
    [CMAKE_C_COMPILER |-> <<native_clang_install, "bin", "clang">>,
     CMAKE_CXX_COMPILER |-> <<native_clang_install, "bin", "clang++">>]

\* build_llvm_for_windows: write NATIVE.cmake, then build.
BuildWindows ==
    /\ At("windows")
    /\ LET target == Program[pc].target
           is_32_bit == target = "windows-i386"
           install_dir == IF is_32_bit THEN windows32_install ELSE windows64_install
       IN  /\ written' = written \cup
                  {[target |-> target,
                    dir |-> out_path(StepId("windows", <<>>, is_32_bit)),
                    file |-> "NATIVE.cmake",
                    text |-> native_cmake_text(stage2_install),
                    at |-> Len(calls)]}
           /\ \E failAt \in FailPoints(TRUE) :
                Invoke(build_llvm(StepId("windows", <<>>, is_32_bit), STAGE2_TARGETS,
                                  install_dir, windows_extra_defines(is_32_bit), failAt))
    /\ UNCHANGED <<args, host, profiles, long_version, profdata, installs, removed,
                   packaged>>
    /\ UNCHANGED normVars
    /\ UNCHANGED cache_rm
    /\ UNCHANGED <<pkg, mx>>
    /\ UNCHANGED notes

\* main 1234-1253: one package_toolchain call; its own failures (a layout
\* error of the normalization, strip or tar failing) leave main by an exception.
PackageToolchain ==
    /\ At("package")
    /\ packaged' = Append(packaged, Program[pc].target)
    /\ \E ok \in BOOLEAN : IF ok THEN Advance ELSE Raise("PackagingError")
    /\ UNCHANGED <<args, host, profiles, long_version, profdata, calls, installs,
                   removed, written>>
    /\ UNCHANGED normVars
    /\ UNCHANGED cache_rm
    /\ UNCHANGED <<pkg, mx>>
    /\ UNCHANGED orig_env
    /\ UNCHANGED notes

\* main 1255: return 0
Return ==
    /\ status = "running"
    /\ pc > Len(Program)
    /\ status' = "exit0"
    /\ UNCHANGED <<args, host, profiles, pc, error, long_version, profdata, calls,
                   installs, removed, written, packaged>>
    /\ UNCHANGED normVars
    /\ UNCHANGED cache_rm
    /\ UNCHANGED <<pkg, mx>>
    /\ UNCHANGED orig_env
    /\ UNCHANGED notes

-----------------------------------------------------------------------------
(* The inputs of a run. *)

\* parse_args: --skip-build and --skip-package are mutually exclusive.
ArgsSpace ==
    {a \in [skip_build : BOOLEAN, skip_package : BOOLEAN, build_instrumented : BOOLEAN,
            check_pgo_profile : BOOLEAN, no_build_windows : BOOLEAN] :
        ~(a.skip_build /\ a.skip_package)}

Hosts == {"linux-x86", "darwin-x86"}

\* os.environ when the module is loaded: without or with a library search
\* path of the user's own.
OrigEnvs ==
    {[PATH |-> <<"usr", "bin">>],
     [PATH |-> <<"usr", "bin">>, LD_LIBRARY_PATH |-> <<"opt", "lib">>]}

\* The profiles directory: empty, holding the profile of this version, or
\* holding only the profile of another version.
ProfileDirs == {{}, {"6.0.2.profdata"}, {"5.0.300080.profdata"}}

PkgIdle == pkg = "idle"
MxIdle == mx = "idle"

NormIdle ==
    /\ libdir = EmptyDict
    /\ libdir0 = EmptyDict
    /\ norm_host = "none"
    /\ visited = {}
    /\ norm_status = "idle"
    /\ norm_failed = "none"

Init ==
    /\ args \in ArgsSpace
    /\ host \in Hosts
    /\ profiles \in ProfileDirs
    /\ pc = 1
    /\ status = "running"
    /\ error = "none"
    /\ long_version = "none"
    /\ profdata = "none"
    /\ calls = <<>>
    /\ installs = <<>>
    /\ removed = {}
    /\ written = {}
    /\ packaged = <<>>
    /\ cache_rm = <<>>
    /\ orig_env \in OrigEnvs
    /\ notes = <<>>
    /\ NormIdle
    /\ PkgIdle
    /\ MxIdle

Next ==
    \/ RemoveInstallDirs
    \/ BuildStage1
    \/ ResolveProfile
    \/ BuildStage2
    \/ BuildCrt
    \/ BuildCrtHost
    \/ BuildLibfuzzer
    \/ InstallFuzzerHeaders
    \/ BuildLibomp
    \/ BuildAsanTest
    \/ BuildAsanMapFiles
    \/ BuildWindows
    \/ PackageToolchain
    \/ Return

Spec == Init /\ [][Next]_vars

\* main is one sequential process: it takes its next step until it returns or
\* an exception leaves it.
FairSpec == Spec /\ WF_vars(Next)

-----------------------------------------------------------------------------
(* Properties of the run of main(). *)

Idx(log) == 1..Len(log)
ConfigError == "RuntimeError: Cannot simultaneously instrument and use profiles"
MissingProfile == "RuntimeError: Profdata file does not exist"
SomeCallFailed == \E i \in Idx(calls) : ~calls[i].ok
Stage2Started == \E i \in Idx(calls) : calls[i].step.kind = "stage2"

\* C1: the build engine is invoked for stage 2 only after all three engine
\* commands of stage 1 (configure, build, install) have succeeded earlier in
\* the same run and the stage-1 long version has been extracted.
C1_Stage2OnlyAfterStage1 ==
    \A j \in Idx(calls) :
        calls[j].step.kind = "stage2" =>
            /\ long_version = extract_clang_long_version(stage1_install)
            /\ \A cmd \in {"cmake", "ninja", "install"} :
                 \E i \in 1..(j - 1) :
                     /\ calls[i].step.kind = "stage1"
                     /\ calls[i].cmd = cmd
                     /\ calls[i].ok

C1_Witness == Stage2Started

\* C2 as stated: when build_stage2 raises the configuration error, no build
\* engine call has been made in the run.
C2_ZeroCallsBeforeConfigError ==
    (status = "error" /\ error = ConfigError) => calls = <<>>

\* A run that asks for an instrumented stage 2 and found a profile to supply.
BothModes == instrumented(args, host) /\ profdata \notin {"none", None}

\* C2 as amended: when an instrumented stage 2 is asked for and a profile is
\* supplied, the configuration error is raised before any build engine call
\* for stage 2 or any later step; the calls made before the error are exactly
\* the three successful calls of stage 1.
C2_NoStage2CallBeforeConfigError ==
    /\ BothModes =>
         /\ \A i \in Idx(calls) : calls[i].step.kind = "stage1"
         /\ packaged = <<>>
         /\ status # "exit0"
         /\ status = "error" => error = ConfigError
    /\ (status = "error" /\ error = ConfigError) =>
         /\ BothModes
         /\ Len(calls) = 3
         /\ \A i \in Idx(calls) : calls[i].ok

C2_Witness == status = "error" /\ error = ConfigError /\ Len(calls) = 3

\* The stage-1 version is known, no profile is named after it.
ProfileAbsent == long_version # "none" /\ (long_version \o ".profdata") \notin profiles

\* C3: with no profile named after the stage-1 long version and
\* --check-pgo-profile given, the run fails with the missing-profile error and
\* the engine is never invoked for stage 2, a runtime or a Windows build, and
\* package_toolchain never runs.
C3_MissingProfileAbortsBeforeStage2 ==
    (ProfileAbsent /\ args.check_pgo_profile) =>
        /\ status = "error"
        /\ error = MissingProfile
        /\ \A i \in Idx(calls) : calls[i].step.kind = "stage1"
        /\ packaged = <<>>

C3_Witness ==
    /\ ProfileAbsent
    /\ args.check_pgo_profile
    /\ profiles # {}
    /\ Len(calls) = 3

\* C4: with no profile named after the stage-1 long version and no
\* --check-pgo-profile, every engine call of stage 2 gets a configuration
\* without LLVM_PROFDATA_FILE; a run that returns 0 without --skip-package has
\* run package_toolchain on the stage-2 tree; and such a run, once stage 1 is
\* done, goes on until it fails or reaches packaging.
C4_NoProfileStage2ReachesPackaging ==
    /\ [](\A i \in Idx(calls) :
            (calls[i].step.kind = "stage2" /\ ProfileAbsent /\ ~args.check_pgo_profile)
                => "LLVM_PROFDATA_FILE" \notin DOMAIN calls[i].defines)
    /\ []((ProfileAbsent /\ status = "exit0" /\ ~args.skip_package)
            => (packaged # <<>> /\ packaged[1] = host /\ Stage2Started))
    /\ ((ProfileAbsent /\ ~args.check_pgo_profile /\ ~args.skip_package)
            ~> (status = "error" \/ packaged # <<>>))

C4_Witness ==
    /\ ProfileAbsent
    /\ ~args.check_pgo_profile
    /\ Stage2Started
    /\ packaged # <<>>
    /\ status = "exit0"

\* C5: an engine failure is fatal and not retried: only the last call of the
\* log can be a failed one, no command of a step is invoked twice, and once a
\* call has failed the run is in error with CalledProcessError and
\* package_toolchain has not run.
C5_EngineFailureFatal ==
    /\ \A i \in 1..(Len(calls) - 1) : calls[i].ok
    /\ \A i, j \in Idx(calls) :
         (calls[i].step = calls[j].step /\ calls[i].cmd = calls[j].cmd) => i = j
    /\ SomeCallFailed =>
         /\ status = "error"
         /\ error = "CalledProcessError"
         /\ packaged = <<>>

C5_Witness ==
    /\ SomeCallFailed
    /\ calls[Len(calls)].step.kind = "omp"
    /\ calls[Len(calls)].cmd = "ninja"

\* A runtime build of the fan-out failed for architecture mips.
MipsFailed ==
    \E i \in Idx(calls) :
        ~calls[i].ok /\ calls[i].step.kind \in {"crt", "fuzzer", "omp"}
                     /\ calls[i].step.arch = S_mips

\* The artifacts of the architectures before mips, of the kind and mode that failed.
EarlierArchsInstalled ==
    \A i \in Idx(calls) :
        (~calls[i].ok /\ calls[i].step.arch = S_mips) =>
            \A a \in {S_arm, S_aarch64, S_x86_64, S_i386} :
                \E k \in Idx(installs) :
                    /\ installs[k].kind = calls[i].step.kind
                    /\ installs[k].ndk = calls[i].step.ndk
                    /\ installs[k].arch = a
                    /\ installs[k].dir.root = stage2_install

\* C6 as stated: when a runtime build for mips fails, nothing is packaged, the
\* run fails, the four earlier architectures are installed, and no build for
\* mips64 was ever started.
C6_Mips64NeverStarted ==
    MipsFailed =>
        /\ packaged = <<>>
        /\ status = "error"
        /\ EarlierArchsInstalled
        /\ \A i \in Idx(calls) : calls[i].step.arch # S_mips64

\* C6 as amended: when a runtime build for mips fails, nothing is packaged,
\* the run fails, the four earlier architectures of that library kind and
\* platform mode are installed in the stage-2 tree, the mips64 build of that
\* kind and mode is never started and no build at all starts after the
\* failure (mips64 builds of the kinds whose loops ran earlier are complete).
C6_Mips64OfThatKindNeverStarted ==
    MipsFailed =>
        /\ packaged = <<>>
        /\ status = "error"
        /\ EarlierArchsInstalled
        /\ ~calls[Len(calls)].ok
        /\ \A i, j \in Idx(calls) :
             (~calls[i].ok /\ calls[j].step.arch = S_mips64) =>
                 /\ j < i
                 /\ <<calls[j].step.kind, calls[j].step.ndk>>
                        # <<calls[i].step.kind, calls[i].step.ndk>>
                 /\ calls[j].ok

C6_Witness ==
    /\ MipsFailed
    /\ calls[Len(calls)].step.kind = "fuzzer"
    /\ calls[Len(calls)].step.ndk
    /\ \E j \in Idx(calls) : calls[j].step.arch = S_mips64

\* build_runtimes has run to its end.
RuntimesDone == \E k \in Idx(installs) : installs[k].kind = "asan_map"

InstallsOf(kind, arch) ==
    {k \in Idx(installs) : installs[k].kind = kind /\ installs[k].arch = arch}
BuildsOf(kind, arch) ==
    {i \in Idx(calls) : calls[i].step.kind = kind /\ calls[i].step.arch = arch
                        /\ calls[i].cmd = "cmake"}

\* The install subdirectory expected for each architecture of the matrix.
ExpectedSubdir(a) ==
    IF a = S_mips THEN S_mips \o <<"e","l">>
    ELSE IF a = S_mips64 THEN S_mips64 \o <<"e","l">>
    ELSE a

ResourceRoot == <<"lib64", "clang", ClangVersion.long>>
UnderResourceRoot(d) ==
    d.root = stage2_install /\ Len(d.base) >= 3 /\ SubSeq(d.base, 1, 3) = ResourceRoot

\* C7 as stated: after the fan-out every (architecture, kind) pair has been
\* built once and installed once, below the resource root in the
\* architecture's subdirectory, and nothing was installed elsewhere.
C7_OneArtifactPerArchAndKind ==
    RuntimesDone =>
        /\ \A a \in Archs : \A kind \in {"crt", "fuzzer", "omp"} :
             /\ Cardinality(InstallsOf(kind, a)) = 1
             /\ Cardinality(BuildsOf(kind, a)) = 1
             /\ \A k \in InstallsOf(kind, a) :
                  UnderResourceRoot(installs[k].dir)
                  /\ installs[k].dir.sub = ExpectedSubdir(a)
        /\ \A k \in Idx(installs) : UnderResourceRoot(installs[k].dir)

\* C7 as amended: after the fan-out, for every architecture, every kind among
\* fuzzing and parallel runtime and every platform mode, exactly one build ran
\* and exactly one artifact was installed: in platform mode at
\* lib64/clang/<long version>/lib/linux/<subdirectory>, in NDK mode at
\* runtimes_ndk_cxx/<subdirectory> outside the resource root; the compiler
\* runtime of every architecture was built once and installed once, with
\* lib64/clang/<long version> as install prefix.
C7_OneArtifactPerArchKindAndMode ==
    RuntimesDone =>
        /\ \A a \in Archs : \A kind \in {"fuzzer", "omp"} : \A ndk \in BOOLEAN :
             /\ Cardinality({k \in InstallsOf(kind, a) : installs[k].ndk = ndk}) = 1
             /\ Cardinality({i \in BuildsOf(kind, a) : calls[i].step.ndk = ndk}) = 1
             /\ \A k \in InstallsOf(kind, a) :
                  installs[k].ndk = ndk =>
                      installs[k].dir =
                          [root |-> stage2_install,
                           base |-> IF ndk THEN <<"runtimes_ndk_cxx">>
                                    ELSE ResourceRoot \o <<"lib", "linux">>,
                           sub |-> ExpectedSubdir(a)]
        /\ \A a \in Archs :
             /\ Cardinality(InstallsOf("crt", a)) = 1
             /\ Cardinality(BuildsOf("crt", a)) = 1
             /\ \A k \in InstallsOf("crt", a) :
                  installs[k].dir = [root |-> stage2_install, base |-> ResourceRoot,
                                     sub |-> <<>>]

C7_Witness == RuntimesDone /\ status = "exit0"

\* The architectures whose platform-mode fuzzing runtime was installed in a
\* subdirectory named differently from the architecture id.
RemappedArchs ==
    {a \in Archs : \E k \in InstallsOf("fuzzer", a) :
                       ~installs[k].ndk /\ installs[k].dir.sub # a}
SameNameArchs ==
    {a \in Archs : \E k \in InstallsOf("fuzzer", a) :
                       ~installs[k].ndk /\ installs[k].dir.sub = a}

\* C8 as stated: over the six architectures the install subdirectory differs
\* from the architecture id for exactly three and equals it for three.
C8_ThreeSubdirsDiffer ==
    RuntimesDone => Cardinality(RemappedArchs) = 3 /\ Cardinality(SameNameArchs) = 3

\* C8 as amended: the install subdirectory differs from the architecture id
\* for exactly two architectures (mips -> mipsel, mips64 -> mips64el) and
\* equals it for the other four (arm, aarch64, x86_64, i386).
C8_TwoSubdirsDiffer ==
    RuntimesDone =>
        /\ RemappedArchs = {S_mips, S_mips64}
        /\ SameNameArchs = {S_arm, S_aarch64, S_x86_64, S_i386}
        /\ \A k \in InstallsOf("fuzzer", S_mips) :
             ~installs[k].ndk => installs[k].dir.sub = <<"m","i","p","s","e","l">>
        /\ \A k \in InstallsOf("fuzzer", S_mips64) :
             ~installs[k].ndk =>
                 installs[k].dir.sub = <<"m","i","p","s","6","4","e","l">>

C8_Witness == RuntimesDone /\ Cardinality(RemappedArchs) = 2

-----------------------------------------------------------------------------
(* normalize_llvm_host_libs: the library directory and the fixed library set. *)

S_lib == <<"l","i","b">>
S_libLLVM == S_lib \o <<"L","L","V","M">>
S_libclang == S_lib \o <<"c","l","a","n","g">>
S_libcxx == S_lib \o <<"c","+","+">>
S_libcxxabi == S_libcxx \o <<"a","b","i">>
S_so == <<".","s","o">>
S_dylib == <<".","d","y","l","i","b">>
S_svn_so == <<"s","v","n">> \o S_so

\* libformat.format(version=v) for a template 'pre{version}suf'
Format(libformat, v) == libformat.pre \o v \o libformat.suf

\* The dictionary libs: library name -> file name template.
libs(h) ==
    IF h = "linux-x86"
    THEN (S_libLLVM :> [pre |-> S_libLLVM \o <<"-">>, suf |-> S_svn_so])
         @@ (S_libclang :> [pre |-> S_libclang \o S_so \o <<".">>, suf |-> <<>>])
         @@ (S_libcxx :> [pre |-> S_libcxx \o S_so \o <<".">>, suf |-> <<>>])
         @@ (S_libcxxabi :> [pre |-> S_libcxxabi \o S_so \o <<".">>, suf |-> <<>>])
    ELSE (S_libcxx :> [pre |-> S_libcxx \o <<".">>, suf |-> S_dylib])
         @@ (S_libcxxabi :> [pre |-> S_libcxxabi \o <<".">>, suf |-> S_dylib])

\* getVersions: (short_version, major)
getVersions(libname, version) ==
    IF ~StartsWith(libname, S_libcxx)
    THEN [short_version |-> version.short, major |-> version.major]
    ELSE [short_version |-> <<"1",".","0">>, major |-> <<"1">>]

\* real_lib and the SONAME path computed from the template (lines 899-900)
RealLib(libname, h, version) ==
    Format(libs(h)[libname], getVersions(libname, version).short_version)
FormatSoname(libname, h, version) ==
    Format(libs(h)[libname], getVersions(libname, version).major)

\* soname_lib as the loop uses it (lines 902-904): for libLLVM it is real_lib.
SonameLib(libname, h, version) ==
    IF libname = S_libLLVM THEN RealLib(libname, h, version)
    ELSE FormatSoname(libname, h, version)

\* The unversioned development name of a library (libc++.so, libc++.dylib).
DevLib(libname, h) ==
    libname \o (IF h = "linux-x86" THEN S_so ELSE S_dylib)

\* Directory entries.  A regular file carries the name it was created under;
\* a symlink either resolves to a regular file or does not.
Absent == [kind |-> "absent", id |-> <<>>]
File(n) == [kind |-> "file", id |-> n]
Link(n) == [kind |-> "link", id |-> n]

\* os.path.isfile follows symlinks; os.path.islink does not.
isfile(dir, n) == n \in DOMAIN dir /\ dir[n].kind \in {"file", "link"}
islink(dir, n) == n \in DOMAIN dir /\ dir[n].kind = "link"

\* os.listdir
listdir(dir) == {n \in DOMAIN dir : dir[n].kind # "absent"}

move_noop(dir, src, dst) == dir

\* shutil.move(src, dst) within one directory: rename over dst
move(dir, src, dst) ==
    [n \in DOMAIN dir |-> IF n = dst THEN dir[src]
                          ELSE IF n = src THEN Absent
                          ELSE dir[n]]

\* remove(path) for every path of a set
remove_all(dir, paths) ==
    [n \in DOMAIN dir |-> IF n \in paths THEN Absent ELSE dir[n]]

all_libs_by_stem(dir, libname) ==
    {lib \in listdir(dir) : StartsWith(lib, libname)}

\* The files "of this library" (lines 915-917)
all_libs(dir, libname) ==
    {lib \in listdir(dir) : StartsWith(lib, libname \o <<".">>)
                            \/ StartsWith(lib, libname \o <<"-">>)}

\* Lines 914-921: retain only soname_lib.
retain_only(dir, libname, soname_lib) ==
    remove_all(dir, {lib \in all_libs(dir, libname) : lib # soname_lib})

normalize_one_delete_first(dir, libname, h, version) ==
    LET real_lib == RealLib(libname, h, version)
        soname_lib == SonameLib(libname, h, version)
        pruned == retain_only(dir, libname, real_lib)
    IN  IF libname = S_libLLVM
        THEN [dir |-> pruned, err |-> "none"]
        ELSE IF ~isfile(dir, real_lib)
        THEN [dir |-> pruned, err |-> "must be a regular file"]
        ELSE IF ~islink(dir, soname_lib)
        THEN [dir |-> pruned, err |-> "must be a symlink"]
        ELSE [dir |-> move(pruned, real_lib, soname_lib), err |-> "none"]

normalize_one_no_symlink_check(dir, libname, h, version) ==
    LET real_lib == RealLib(libname, h, version)
        soname_lib == SonameLib(libname, h, version)
    IN  IF libname = S_libLLVM
        THEN [dir |-> retain_only(dir, libname, soname_lib), err |-> "none"]
        ELSE IF ~isfile(dir, real_lib)
        THEN [dir |-> dir, err |-> "must be a regular file"]
        ELSE [dir |-> retain_only(move(dir, real_lib, soname_lib), libname, soname_lib),
              err |-> "none"]

\* One iteration of the loop (lines 897-921): the directory it leaves and the
\* error it raised.
normalize_one(dir, libname, h, version) ==
    LET real_lib == RealLib(libname, h, version)
        soname_lib == SonameLib(libname, h, version)
    IN  IF libname = S_libLLVM
        THEN [dir |-> retain_only(dir, libname, soname_lib), err |-> "none"]
        ELSE IF ~isfile(dir, real_lib)
        THEN [dir |-> dir, err |-> "must be a regular file"]
        ELSE IF ~islink(dir, soname_lib)
        THEN [dir |-> dir, err |-> "must be a symlink"]
        ELSE [dir |-> retain_only(move(dir, real_lib, soname_lib), libname, soname_lib),
              err |-> "none"]

\* libs.iteritems() visits the libraries in an order the language leaves open.
NormalizeLib ==
    /\ norm_status = "running"
    /\ \E libname \in DOMAIN libs(norm_host) \ visited :
         LET r == normalize_one(libdir, libname, norm_host, ClangVersion)
         IN  /\ libdir' = r.dir
             /\ IF r.err # "none"
                THEN /\ norm_status' = "failed"
                     /\ norm_failed' = libname
                     /\ visited' = visited
                ELSE /\ norm_status' = "running"
                     /\ norm_failed' = norm_failed
                     /\ visited' = visited \cup {libname}
    /\ UNCHANGED <<libdir0, norm_host>>
    /\ UNCHANGED pipeVars
    /\ UNCHANGED <<pkg, mx>>

\* The loop ends when every library has been visited.
NormalizeReturn ==
    /\ norm_status = "running"
    /\ visited = DOMAIN libs(norm_host)
    /\ norm_status' = "done"
    /\ UNCHANGED <<libdir, libdir0, norm_host, visited, norm_failed>>
    /\ UNCHANGED pipeVars
    /\ UNCHANGED <<pkg, mx>>

\* The names the library directory may hold for a host, and the entries each
\* may be when normalization starts.
LibNames(h) ==
    UNION {{RealLib(l, h, ClangVersion), FormatSoname(l, h, ClangVersion), DevLib(l, h)}
           : l \in DOMAIN libs(h)}

EntryChoices(n, h) ==
    IF \E l \in DOMAIN libs(h) : n = RealLib(l, h, ClangVersion)
    THEN IF n = RealLib(S_libLLVM, "linux-x86", ClangVersion)
         THEN {Absent, File(n)}
         ELSE {Absent, File(n), Link(n)}
    ELSE IF \E l \in DOMAIN libs(h) : n = FormatSoname(l, h, ClangVersion)
    THEN IF n = FormatSoname(S_libLLVM, "linux-x86", ClangVersion)
         THEN {Absent, Link(n)}
         ELSE {Absent, File(n), Link(n)}
    ELSE IF n = DevLib(S_libLLVM, "linux-x86")
    THEN {Link(n)}
    ELSE {Absent, Link(n)}

\* Every directory over a set of names, each name holding one of its choices.
RECURSIVE DirsOver(_, _)
DirsOver(names, h) ==
    IF names = {} THEN {EmptyDict}
    ELSE LET n == CHOOSE x \in names : TRUE
         IN  {Put(d, n, e) : d \in DirsOver(names \ {n}, h), e \in EntryChoices(n, h)}

LibDirs(h) == DirsOver(LibNames(h), h)

PipeIdle ==
    /\ args = [skip_build |-> TRUE, skip_package |-> FALSE, build_instrumented |-> FALSE,
               check_pgo_profile |-> FALSE, no_build_windows |-> TRUE]
    /\ host = "linux-x86"
    /\ profiles = {}
    /\ pc = 1
    /\ status = "packaging"
    /\ error = "none"
    /\ long_version = "none"
    /\ profdata = "none"
    /\ calls = <<>>
    /\ installs = <<>>
    /\ removed = {}
    /\ written = {}
    /\ packaged = <<>>
    /\ cache_rm = <<>>
    /\ orig_env = [PATH |-> <<"usr", "bin">>]
    /\ notes = <<>>

NormInit ==
    /\ PipeIdle
    /\ PkgIdle
    /\ MxIdle
    /\ norm_host \in Hosts
    /\ libdir \in LibDirs(norm_host)
    /\ libdir0 = libdir
    /\ visited = {}
    /\ norm_status = "running"
    /\ norm_failed = "none"

NormNext == NormalizeLib \/ NormalizeReturn

NormSpec == NormInit /\ [][NormNext]_vars

-----------------------------------------------------------------------------
(* Properties of normalize_llvm_host_libs. *)

\* The library's real versioned file is a regular file and its SONAME path
\* (soname_lib of the loop) is a symlink when normalization starts.
WellLaidOut(l) ==
    /\ libdir0[RealLib(l, norm_host, ClangVersion)].kind = "file"
    /\ libdir0[SonameLib(l, norm_host, ClangVersion)].kind = "link"

\* C9: once the loop iteration of a library has completed, if its real file
\* was a regular file and its SONAME path a symlink, exactly one entry whose
\* name starts with the library's stem followed by '.' or '-' is left: the
\* SONAME path, holding the file that was the real file.
C9_OneFilePerLibraryAtSoname ==
    \A l \in visited :
        WellLaidOut(l) =>
            /\ all_libs(libdir, l) = {SonameLib(l, norm_host, ClangVersion)}
            /\ libdir[SonameLib(l, norm_host, ClangVersion)]
                   = File(RealLib(l, norm_host, ClangVersion))
            /\ libdir[RealLib(l, norm_host, ClangVersion)] = Absent

C9_Witness ==
    /\ norm_status = "done"
    /\ norm_host = "linux-x86"
    /\ WellLaidOut(S_libcxx)
    /\ WellLaidOut(S_libclang)
    /\ libdir0[DevLib(S_libcxx, norm_host)].kind = "link"
    /\ libdir[DevLib(S_libcxx, norm_host)] = Absent

ChecksHold(dir, l) ==
    /\ isfile(dir, RealLib(l, norm_host, ClangVersion))
    /\ islink(dir, FormatSoname(l, norm_host, ClangVersion))

\* C11 as stated: normalization completes only when, for every library of the
\* host's set, the versioned real file exists and the SONAME-named file is a
\* symlink.
C11_EveryLibraryChecked ==
    norm_status = "done" =>
        \A l \in DOMAIN libs(norm_host) : ChecksHold(libdir0, l)

\* C11 as amended: the two checks are made for every library of the set
\* except libLLVM.  Normalization completes only when both hold for each of
\* the others; when it fails, the failing library is not libLLVM and one of
\* its two checks is violated in the directory as it then is.
C11_EveryLibraryButLLVMChecked ==
    /\ norm_status = "done" =>
          \A l \in DOMAIN libs(norm_host) \ {S_libLLVM} : ChecksHold(libdir0, l)
    /\ norm_status = "failed" =>
          /\ norm_failed \in DOMAIN libs(norm_host) \ {S_libLLVM}
          /\ ~ChecksHold(libdir, norm_failed)

C11_Witness ==
    /\ norm_status = "failed"
    /\ norm_host = "linux-x86"
    /\ norm_failed = S_libclang
    /\ isfile(libdir, RealLib(S_libclang, norm_host, ClangVersion))
    /\ ~islink(libdir, FormatSoname(S_libclang, norm_host, ClangVersion))
    /\ S_libLLVM \in visited
    /\ ~isfile(libdir0, RealLib(S_libLLVM, norm_host, ClangVersion))

-----------------------------------------------------------------------------
(* Cache removal and the directories of the runtime builds. *)

\* The rm_cmake_cache call that opened the step of engine call i, if any.
CacheRemovedBefore(i) ==
    \E k \in Idx(cache_rm) :
        /\ cache_rm[k].dir = calls[i].cwd
        /\ cache_rm[k].at < i
        /\ \A j \in (cache_rm[k].at + 1)..i : calls[j].step = calls[i].step

CacheRemovingKinds == {"crt", "crt_host", "fuzzer", "omp"}

\* C15 as stated: every engine call of every step (stage 1, stage 2, the
\* runtime builds, the host-only runtime, the secondary-host builds) follows,
\* within its step, a removal of the stale caches of its build directory.
C15_CacheRemovedBeforeEveryInvocation ==
    \A i \in Idx(calls) : CacheRemovedBefore(i)

\* C15 as amended: the engine calls of the runtime builds (compiler runtime,
\* host-only runtime, fuzzing runtime, parallel runtime) follow a removal of
\* the stale caches of their build directory within the same step; for the
\* directories of stage 1, stage 2 and the secondary-host builds no caches
\* are ever removed.
C15_CacheRemovedBeforeRuntimeInvocations ==
    \A i \in Idx(calls) :
        IF calls[i].step.kind \in CacheRemovingKinds
        THEN CacheRemovedBefore(i)
        ELSE \A k \in Idx(cache_rm) : cache_rm[k].dir # calls[i].cwd

C15_Witness ==
    /\ \E i \in Idx(calls) : calls[i].step.kind = "windows"
    /\ \E i \in Idx(calls) :
         calls[i].step = StepId("omp", S_mips64, TRUE) /\ CacheRemovedBefore(i)

FanKinds == {"crt", "fuzzer", "omp"}

\* The (arch, kind, mode) of an installed artifact.
BuildKey(a) == <<a.arch, a.kind, a.ndk>>

\* Distinct per-architecture builds never run in the same working directory.
WorkDirsDisjoint ==
    \A i, j \in Idx(calls) :
        (/\ calls[i].step.kind \in FanKinds
         /\ calls[j].step.kind \in FanKinds
         /\ calls[i].step # calls[j].step) => calls[i].cwd # calls[j].cwd

\* C16 as stated: any two distinct (arch, kind, mode) runtime builds have
\* different working directories and different install directories.
C16_DisjointOutputDirs ==
    /\ WorkDirsDisjoint
    /\ \A k, l \in Idx(installs) :
         (/\ installs[k].kind \in FanKinds
          /\ installs[l].kind \in FanKinds
          /\ BuildKey(installs[k]) # BuildKey(installs[l]))
            => installs[k].dir # installs[l].dir

\* C16 as amended: any two distinct (arch, kind, mode) runtime builds have
\* different working directories, and the files the fuzzing and parallel
\* runtime builds copy have different destinations (directory and name);
\* the install directories themselves are shared: every compiler-runtime
\* build installs under the one resource prefix.
C16_DisjointWorkDirsAndInstalledFiles ==
    /\ WorkDirsDisjoint
    /\ \A k, l \in Idx(installs) :
         (/\ installs[k].kind \in {"fuzzer", "omp"}
          /\ installs[l].kind \in {"fuzzer", "omp"}
          /\ BuildKey(installs[k]) # BuildKey(installs[l]))
            => <<installs[k].dir, installs[k].file>> # <<installs[l].dir, installs[l].file>>
    /\ \A k, l \in Idx(installs) :
         (installs[k].kind = "crt" /\ installs[l].kind = "crt")
            => installs[k].dir = installs[l].dir

C16_Witness ==
    /\ \E k, l \in Idx(installs) :
         /\ installs[k].kind = "crt" /\ installs[l].kind = "crt"
         /\ installs[k].arch # installs[l].arch
    /\ \E k, l \in Idx(installs) :
         /\ installs[k].kind = "fuzzer" /\ installs[l].kind = "omp"
         /\ installs[k].arch = installs[l].arch /\ installs[k].ndk = installs[l].ndk
         /\ installs[k].dir = installs[l].dir
    /\ \E i, j \in Idx(calls) :
         /\ calls[i].step.kind = "omp" /\ calls[j].step.kind = "omp"
         /\ calls[i].step.arch = calls[j].step.arch
         /\ calls[i].step.ndk # calls[j].step.ndk

-----------------------------------------------------------------------------
(* The skip flags and the stage-2 switches. *)

\* Every build step of this run has been passed without a failed call.
AllBuildStepsSucceeded ==
    /\ \A j \in 1..Len(Program) : Program[j].op # "package" => j < pc
    /\ \A i \in Idx(calls) : calls[i].ok
    /\ \E i \in Idx(calls) : calls[i].step.kind = "stage1"
    /\ Stage2Started
    /\ host_is_linux(host) => RuntimesDone
    /\ need_windows(args, host) =>
          \A t \in {"windows-x86", "windows-i386"} : \E w \in written : w.target = t

\* C18: the two skip flags are never both set; with skip-build no install
\* tree is removed and the engine is never invoked, only packaging runs;
\* with skip-package nothing is packaged; with neither, packaging starts
\* only after every build step has succeeded.
C18_SkipFlags ==
    /\ ~(args.skip_build /\ args.skip_package)
    /\ args.skip_build =>
          /\ removed = {} /\ calls = <<>> /\ installs = <<>>
          /\ written = {} /\ cache_rm = <<>> /\ profdata = "none"
          /\ \A j \in 1..Len(Program) : Program[j].op = "package"
    /\ args.skip_package => packaged = <<>>
    /\ (~args.skip_build /\ packaged # <<>>) => AllBuildStepsSucceeded

C18_Witness ==
    /\ args.skip_build
    /\ need_windows(args, host)
    /\ Len(packaged) = 3
    /\ status = "exit0"

\* C20: every engine call of stage 2 carries LLVM_ENABLE_LIBCXX = OFF and
\* LLVM_BUILD_RUNTIME = OFF and no profile-data file when stage 2 is
\* instrumented, and both switches ON when it is not.
C20_InstrumentedStage2Switches ==
    \A i \in Idx(calls) :
        calls[i].step.kind = "stage2" =>
            LET d == calls[i].defines
            IN  IF instrumented(args, host)
                THEN /\ d["LLVM_ENABLE_LIBCXX"] = "OFF"
                     /\ d["LLVM_BUILD_RUNTIME"] = "OFF"
                     /\ "LLVM_PROFDATA_FILE" \notin DOMAIN d
                ELSE /\ d["LLVM_ENABLE_LIBCXX"] = "ON"
                     /\ d["LLVM_BUILD_RUNTIME"] = "ON"

C20_Witness ==
    /\ instrumented(args, host)
    /\ profdata = None
    /\ \E i \in Idx(calls) :
         /\ calls[i].step.kind = "stage2"
         /\ calls[i].defines["LLVM_BUILD_INSTRUMENTED"] = "ON"

-----------------------------------------------------------------------------
(* package_toolchain: the install tree it assembles and archives. *)

MaxRuns == 2

PackageHosts == {"linux-x86", "darwin-x86", "windows-i386", "windows-x86"}

is_windows(h) == h \in {"windows-i386", "windows-x86"}
ext(h) == IF is_windows(h) THEN ".exe" ELSE ""
shlib_ext(h) ==
    IF is_windows(h) THEN ".dll" ELSE IF h = "linux-x86" THEN ".so" ELSE ".dylib"

\* A sequence of characters as one string.
RECURSIVE Join(_)
Join(s) == IF s = <<>> THEN "" ELSE s[1] \o Join(Tail(s))

necessary_bin_files(h, version) ==
    {n \o ext(h) : n \in {"clang", "clang++", "clang-" \o Join(version.short),
                          "clang-format", "clang-tidy", "ld.lld", "ld64.lld", "lld",
                          "lld-link", "llvm-ar", "llvm-as", "llvm-cov", "llvm-dis",
                          "llvm-link", "llvm-modextract", "llvm-nm", "llvm-profdata",
                          "llvm-readobj", "llvm-symbolizer", "sancov", "sanstats",
                          "scan-build", "scan-view"}}
    \cup {"git-clang-format", "LLVMgold" \o shlib_ext(h)}

\* scripts that should not be stripped
script_bins == {"git-clang-format", "scan-build", "scan-view"}

\* lib_dir of package_toolchain (lines 1049-1052)
package_lib_dir(h) == IF h = "windows-i386" THEN "lib" ELSE "lib64"

\* main 1165-1166, 1240, 1247, 1253: the strip argument of each package
strip_for(h, no_strip, debug) ==
    IF is_windows(h) THEN ~no_strip ELSE ~no_strip /\ ~debug

\* os.path.exists
exists(dir, n) == n \in DOMAIN dir /\ dir[n].kind # "absent"

filter_bin_file_keeps_all(bin, f, necessary, strip) ==
    IF ~isfile(bin, f) THEN [bin |-> bin, op |-> "skip"]
    ELSE IF strip /\ f \notin script_bins THEN [bin |-> bin, op |-> "strip"]
    ELSE [bin |-> bin, op |-> "keep"]

filter_bin_file_strips_scripts(bin, f, necessary, strip) ==
    IF ~isfile(bin, f) THEN [bin |-> bin, op |-> "skip"]
    ELSE IF f \notin necessary THEN [bin |-> remove_all(bin, {f}), op |-> "remove"]
    ELSE IF strip THEN [bin |-> bin, op |-> "strip"]
    ELSE [bin |-> bin, op |-> "keep"]

\* One iteration of the loop over bin (lines 1039-1046): the directory it
\* leaves and what it did with the entry.
filter_bin_file(bin, f, necessary, strip) ==
    IF ~isfile(bin, f) THEN [bin |-> bin, op |-> "skip"]
    ELSE IF f \notin necessary THEN [bin |-> remove_all(bin, {f}), op |-> "remove"]
    ELSE IF strip /\ f \notin script_bins THEN [bin |-> bin, op |-> "strip"]
    ELSE [bin |-> bin, op |-> "keep"]

\* lib_file.endswith('.a')
EndsWith(s, e) ==
    Len(s) >= Len(e) /\ SubSeq(s, Len(s) - Len(e) + 1, Len(s)) = e

remove_static_libraries(dir) ==
    remove_all(dir, {n \in listdir(dir) : EndsWith(n, <<".", "a">>)})

install_winpthreads(bin) ==
    Put(bin, "libwinpthread-1.dll", File("libwinpthread-1.dll"))

\* install_wrappers on the bin directory: the directory it leaves and the
\* error shutil.move raises when its source is missing.
install_wrappers(bin) ==
    LET clang_moves == ~exists(bin, "clang.real")
        b1 == IF clang_moves THEN move(bin, "clang", "clang.real") ELSE bin
        tidy_moves == ~exists(b1, "clang-tidy.real")
        b2 == IF tidy_moves THEN move(b1, "clang-tidy", "clang-tidy.real") ELSE b1
        b3 == remove_all(b2, {"clang", "clang++", "clang-tidy", "clang++.real"})
        b4 == Put(b3, "clang++.real", Link("clang.real"))
        b5 == Update(b4, [n \in {"clang", "clang++", "clang-tidy"}
                              |-> File("compiler_wrapper.py")])
        b6 == Put(b5, "bisect_driver.py", File("bisect_driver.py"))
    IN  IF clang_moves /\ ~exists(bin, "clang")
        THEN [bin |-> bin, err |-> "No such file: clang"]
        ELSE IF tidy_moves /\ ~exists(b1, "clang-tidy")
        THEN [bin |-> b1, err |-> "No such file: clang-tidy"]
        ELSE [bin |-> b6, err |-> "none"]

\* normalize_llvm_host_libs on one directory: every outcome the loop can
\* have over the orders in which the dictionary may be visited.
RECURSIVE normalize_llvm_host_libs(_, _, _, _)
normalize_llvm_host_libs(dir, todo, h, version) ==
    IF todo = {} THEN {[dir |-> dir, err |-> "none"]}
    ELSE UNION {LET r == normalize_one(dir, l, h, version)
                IN  IF r.err # "none" THEN {r}
                    ELSE normalize_llvm_host_libs(r.dir, todo \ {l}, h, version)
                : l \in todo}

\* A tree: its bin directory, its library directory (lib or lib64, the one
\* package_toolchain works on) and the other files it holds.
EmptyTree == [bin |-> EmptyDict, lib |-> EmptyDict, files |-> {}]

\* shutil.rmtree(install_host_dir), when it exists (lines 992-993)
rmtree(fs) == [fs EXCEPT !.install = EmptyTree, !.installed = FALSE]

copytree_moves(fs) ==
    [fs |-> [build |-> EmptyTree, install |-> fs.build, installed |-> TRUE],
     err |-> IF fs.installed THEN "File exists" ELSE "none"]

\* shutil.copytree(build_dir, install_dir, symlinks=True): the destination
\* must not exist; links are copied as links.
copytree(fs) ==
    IF fs.installed
    THEN [fs |-> fs, err |-> "File exists"]
    ELSE [fs |-> [fs EXCEPT !.install = fs.build, !.installed = TRUE], err |-> "none"]

\* The files added after the libraries (lines 1063-1076): stdatomic.h, the
\* license files, AndroidVersion.txt.
installed_files(h, version) ==
    {<<package_lib_dir(h), "clang", version.long, "include", "stdatomic.h">>,
     <<"MODULE_LICENSE">>, <<"NOTICE">>, <<"AndroidVersion.txt">>}

PkgStrip == strip_for(pkg.host, pkg.no_strip, pkg.debug)
PkgNecessary == necessary_bin_files(pkg.host, extract_clang_version(pkg.fs.build))

PkgFail(p, e) == [p EXCEPT !.phase = "failed", !.error = e]

\* package_toolchain 980-996: remove the old install tree, copy the build tree.
PkgCopy ==
    /\ pkg.phase = "start"
    /\ LET c == copytree(rmtree(pkg.fs))
       IN  pkg' = IF c.err # "none"
                  THEN PkgFail([pkg EXCEPT !.fs = c.fs], c.err)
                  ELSE [pkg EXCEPT !.fs = c.fs,
                                   !.todo = listdir(c.fs.install.bin),
                                   !.deleted = {},
                                   !.phase = "filter"]
    /\ UNCHANGED <<pipeVars, normVars, mx>>

\* One iteration of the loop over os.listdir(bin_dir), in any order.
PkgFilter ==
    /\ pkg.phase = "filter"
    /\ \E f \in pkg.todo :
         LET r == filter_bin_file(pkg.fs.install.bin, f, PkgNecessary, PkgStrip)
             p == [pkg EXCEPT !.fs.install.bin = r.bin,
                              !.todo = pkg.todo \ {f},
                              !.deleted = IF r.op = "remove"
                                          THEN pkg.deleted \cup {f} ELSE pkg.deleted]
         IN  IF r.op = "strip"
             THEN \E ok \in BOOLEAN :
                    LET call == [file |-> f, run |-> pkg.run, strip |-> PkgStrip,
                                 existed |-> exists(pkg.fs.install.bin, f),
                                 deleted |-> f \in pkg.deleted, ok |-> ok]
                        q == [p EXCEPT !.strips = pkg.strips \cup {call}]
                    IN  pkg' = IF check_call_raises(ok)
                               THEN PkgFail(q, "CalledProcessError: strip")
                               ELSE q
             ELSE pkg' = p
    /\ UNCHANGED <<pipeVars, normVars, mx>>

\* package_toolchain 1048-1061: static libraries, then the Windows support
\* library or the wrappers and the SONAME normalization.
PkgSupport ==
    /\ pkg.phase = "filter"
    /\ pkg.todo = {}
    /\ LET h == pkg.host
           version == extract_clang_version(pkg.fs.build)
           lib1 == remove_static_libraries(pkg.fs.install.lib)
           p1 == [pkg EXCEPT !.fs.install.lib = lib1]
       IN  IF is_windows(h)
           THEN pkg' = [p1 EXCEPT !.fs.install.bin = install_winpthreads(pkg.fs.install.bin),
                                  !.phase = "support"]
           ELSE LET w == install_wrappers(pkg.fs.install.bin)
                    p2 == [p1 EXCEPT !.fs.install.bin = w.bin]
                IN  IF w.err # "none"
                    THEN pkg' = PkgFail(p2, w.err)
                    ELSE \E out \in normalize_llvm_host_libs(lib1, DOMAIN libs(h), h,
                                                             version) :
                           LET p3 == [p2 EXCEPT !.fs.install.lib = out.dir]
                           IN  pkg' = IF out.err # "none"
                                      THEN PkgFail(p3, out.err)
                                      ELSE [p3 EXCEPT !.phase = "support"]
    /\ UNCHANGED <<pipeVars, normVars, mx>>

\* package_toolchain 1063-1084: the added files, then tar through check_call.
PkgArchive ==
    /\ pkg.phase = "support"
    /\ LET version == extract_clang_version(pkg.fs.build)
           p == [pkg EXCEPT !.fs.install.files =
                                pkg.fs.install.files \cup installed_files(pkg.host, version)]
       IN  \E ok \in BOOLEAN :
             pkg' = IF check_call_raises(ok)
                    THEN PkgFail(p, "CalledProcessError: tar")
                    ELSE [p EXCEPT !.archives = Append(pkg.archives, p.fs.install),
                                   !.phase = "done"]
    /\ UNCHANGED <<pipeVars, normVars, mx>>

\* package_toolchain is called again with the same arguments.
PkgRerun ==
    /\ pkg.phase = "done"
    /\ pkg.run < MaxRuns
    /\ pkg' = [pkg EXCEPT !.run = pkg.run + 1, !.phase = "start"]
    /\ UNCHANGED <<pipeVars, normVars, mx>>

\* The bin directory of a build tree: clang, clang++ and clang-tidy, and any
\* of a script, a tool outside the list, a tool of the list and, on the
\* hosts that get wrappers, a clang.real left by an earlier wrapping.
BinOptional(h) ==
    {"scan-build", "llc" \o ext(h), "llvm-ar" \o ext(h)}
    \cup (IF is_windows(h) THEN {} ELSE {"clang.real"})

BinAdded == {"clang.real", "clang++.real", "clang-tidy.real", "bisect_driver.py",
             "libwinpthread-1.dll"}

BinDirs(h) ==
    LET must == {"clang" \o ext(h), "clang-tidy" \o ext(h)}
        link == "clang++" \o ext(h)
    IN  {[n \in must \cup {link} \cup BinOptional(h) \cup BinAdded |->
             IF n \in must \cup chosen THEN File(n)
             ELSE IF n = link THEN Link("clang" \o ext(h))
             ELSE Absent] : chosen \in SUBSET BinOptional(h)}

S_libcxx_a == S_libcxx \o <<".", "a">>

\* The library directory of a build tree: every library laid out as the
\* build leaves it, with a static library beside them; SonameKinds gives the
\* kind of entry at the SONAME path of libc++.
LibDirFor(h, cxx_soname) ==
    IF is_windows(h)
    THEN (S_libclang \o <<".", "a">>) :> File(S_libclang \o <<".", "a">>)
         @@ (S_libclang \o <<".", "d", "l", "l">>)
               :> File(S_libclang \o <<".", "d", "l", "l">>)
    ELSE [n \in LibNames(h) \cup {S_libcxx_a} |->
            IF n = S_libcxx_a THEN File(n)
            ELSE IF n = FormatSoname(S_libcxx, h, ClangVersion) THEN cxx_soname
            ELSE IF h = "linux-x86" /\ n = FormatSoname(S_libLLVM, h, ClangVersion)
            THEN Absent
            ELSE IF \E l \in DOMAIN libs(h) : n = RealLib(l, h, ClangVersion)
            THEN File(n)
            ELSE Link(n)]

BuildTrees(h) ==
    {[bin |-> b, lib |-> LibDirFor(h, s), files |-> {<<"include", "Version.inc">>}]
        : b \in BinDirs(h),
          s \in IF is_windows(h) THEN {Absent}
                ELSE {Link(FormatSoname(S_libcxx, h, ClangVersion)),
                      File(FormatSoname(S_libcxx, h, ClangVersion))}}

PkgStart(h, ns, d, st, t) ==
    [host |-> h, no_strip |-> ns, debug |-> d,
     fs |-> [build |-> t, install |-> IF st THEN t ELSE EmptyTree, installed |-> st],
     build0 |-> t, todo |-> {}, deleted |-> {}, strips |-> {}, archives |-> <<>>,
     phase |-> "start", run |-> 1, error |-> "none"]

PkgInit ==
    /\ PipeIdle
    /\ NormIdle
    /\ MxIdle
    /\ pkg \in UNION {{PkgStart(h, ns, d, st, t)
                         : ns \in BOOLEAN, d \in BOOLEAN, st \in BOOLEAN,
                           t \in BuildTrees(h)} : h \in PackageHosts}

PkgNext == PkgCopy \/ PkgFilter \/ PkgSupport \/ PkgArchive \/ PkgRerun

PkgSpec == PkgInit /\ [][PkgNext]_vars

-----------------------------------------------------------------------------
(* The packaged bin directory, repeated packaging, stripping. *)

\* Filtering is over and the tree has not been archived yet, or it has.
FilterComplete ==
    \/ pkg.phase = "filter" /\ pkg.todo = {}
    \/ pkg.phase \in {"support", "done"}

\* The files package_toolchain puts into bin after the filter.
PostFilterAdditions(h) ==
    IF is_windows(h) THEN {"libwinpthread-1.dll"}
    ELSE {"clang.real", "clang++.real", "clang-tidy.real", "bisect_driver.py"}

\* C12 as stated: every file of bin in an archived tree is in the allow-list,
\* and from the end of the filter until the archive no file outside the
\* allow-list is in bin.
C12_ArchivedBinWithinAllowList ==
    /\ \A i \in Idx(pkg.archives) : listdir(pkg.archives[i].bin) \subseteq PkgNecessary
    /\ FilterComplete => listdir(pkg.fs.install.bin) \subseteq PkgNecessary

\* C12 as amended: when the filter ends every file of bin is in the
\* allow-list; the steps that follow add files outside it (the three .real
\* files and bisect_driver.py with the wrappers, libwinpthread-1.dll on
\* Windows), and every file of bin in an archived tree is in the allow-list
\* or is one of these, all of which are in it.
C12_ArchivedBinWithinAllowListAndAdditions ==
    /\ \A i \in Idx(pkg.archives) :
         /\ listdir(pkg.archives[i].bin)
               \subseteq PkgNecessary \cup PostFilterAdditions(pkg.host)
         /\ PostFilterAdditions(pkg.host) \subseteq listdir(pkg.archives[i].bin)
    /\ (pkg.phase = "filter" /\ pkg.todo = {}) =>
          listdir(pkg.fs.install.bin) \subseteq PkgNecessary
    /\ FilterComplete =>
          listdir(pkg.fs.install.bin)
              \subseteq PkgNecessary \cup PostFilterAdditions(pkg.host)

C12_Witness ==
    /\ pkg.host = "linux-x86"
    /\ pkg.phase = "done"
    /\ "llc" \in pkg.deleted
    /\ exists(pkg.build0.bin, "clang.real")
    /\ exists(pkg.archives[1].bin, "bisect_driver.py")
    /\ exists(pkg.archives[1].bin, "llvm-ar")

\* C17: package_toolchain leaves the build tree as it found it, and a second
\* run with the same arguments archives the same set of files as the first;
\* nothing the first run left behind makes the second fail.
C17_PackagingIdempotent ==
    /\ pkg.fs.build = pkg.build0
    /\ \A i, j \in Idx(pkg.archives) : pkg.archives[i] = pkg.archives[j]
    /\ (pkg.run > 1 /\ pkg.phase = "failed") =>
          pkg.error \in {"CalledProcessError: strip", "CalledProcessError: tar"}

C17_Witness ==
    /\ Len(pkg.archives) = 2
    /\ pkg.host = "darwin-x86"
    /\ pkg.deleted # {}
    /\ pkg.strips # {}

\* C19: strip is called only when stripping is enabled, only on a file of
\* the allow-list that is in bin when it is called and has not been deleted,
\* and never on git-clang-format, scan-build or scan-view.
C19_StripOnlyRetainedBinaries ==
    /\ ~PkgStrip => pkg.strips = {}
    /\ \A c \in pkg.strips :
         /\ c.strip
         /\ c.file \in PkgNecessary
         /\ c.file \notin {"git-clang-format", "scan-build", "scan-view"}
         /\ c.existed
         /\ ~c.deleted

C19_Witness ==
    /\ pkg.phase = "support"
    /\ PkgStrip
    /\ \E c \in pkg.strips : c.file = "llvm-ar.exe"
    /\ "scan-build" \in pkg.deleted
    /\ "llc.exe" \in pkg.deleted

-----------------------------------------------------------------------------
(* The configuration matrix as a generator of fresh objects. *)

MaxMutations == 2
Enumerations == 2

\* The last column of the table of cross_compile_configs.
extra_flags(arch) ==
    CASE arch = S_arm -> "-march=armv7-a"
      [] arch \in {S_aarch64, S_x86_64} -> ""
      [] arch \in {S_i386, S_mips} -> "-m32"
      [] arch = S_mips64 -> "-m64"

\* ndk_toolchain_lib: the last path component it appends
ndk_toolchain_lib(arch) ==
    IF arch \in {S_arm, S_i386, S_mips} THEN "lib" ELSE "lib64"

\* The flag list built at lines 320-326, as far as it depends on the row.
config_cflags(i, platform) ==
    << <<"--target=", configs[i].llvm_triple>>,
       <<"-D__ANDROID_API__=", android_api(configs[i].arch, platform)>>,
       extra_flags(configs[i].arch) >>

new_object_cached(e, i, field) == <<1, i, field>>

\* `defines = {}` and `cflags = [...]` make a new object in every iteration
\* of every enumeration: its identity.
new_object(e, i, field) == <<e, i, field>>

\* Binding a name to the object at an address: the object is created when
\* the address is new.
bind(heap, addr, value) == IF addr \in DOMAIN heap THEN heap ELSE Put(heap, addr, value)

\* One iteration of the generator: the next row is yielded with its
\* variable map and flag list.
MxYield ==
    /\ mx.i <= Len(configs)
    /\ LET cfg == cross_compile_configs(stage2_install, mx.platform)[mx.i]
           d == new_object(mx.e, mx.i, "defines")
           c == new_object(mx.e, mx.i, "cflags")
           h1 == bind(mx.heap, d, cfg.defines)
           h2 == bind(h1, c, config_cflags(mx.i, mx.platform))
           row == [arch |-> cfg.arch, llvm_triple |-> cfg.llvm_triple,
                   defines |-> h2[d], cflags |-> h2[c]]
       IN  mx' = [mx EXCEPT !.heap = h2,
                            !.refs = mx.refs \cup {d, c},
                            !.yielded[mx.e] = Append(mx.yielded[mx.e], row),
                            !.i = mx.i + 1]
    /\ UNCHANGED <<pipeVars, normVars, pkg>>

\* A consumer changes an object it was handed: crt_defines[...] = ... or
\* cflags.append(...), as build_crts and build_libfuzzers do.
MxMutate ==
    /\ mx.mutations < MaxMutations
    /\ \E r \in mx.refs :
         mx' = [mx EXCEPT !.heap[r] = IF r[3] = "defines"
                                      THEN Put(mx.heap[r], "SANITIZER_CXX_ABI", "libcxxabi")
                                      ELSE Append(mx.heap[r], "-DANDROID"),
                          !.mutations = mx.mutations + 1]
    /\ UNCHANGED <<pipeVars, normVars, pkg>>

\* The next consumer starts a new enumeration with the same arguments.
MxEnumerateAgain ==
    /\ mx.i > Len(configs)
    /\ mx.e < Enumerations
    /\ mx' = [mx EXCEPT !.e = mx.e + 1, !.i = 1]
    /\ UNCHANGED <<pipeVars, normVars, pkg>>

UnknownArchs == {<<"r","i","s","c","v","6","4">>, <<"x","8","6">>}

\* A helper is asked about one architecture identifier; the last answer is
\* kept.
MxProbe ==
    /\ \E arch \in Archs \cup UnknownArchs :
         mx' = [mx EXCEPT !.probes =
                    {[arch |-> arch, platform |-> mx.platform,
                      api |-> android_api(arch, mx.platform),
                      toolchain_lib |-> ndk_toolchain_lib(arch)]}]
    /\ UNCHANGED <<pipeVars, normVars, pkg>>

MatrixInit ==
    /\ PipeIdle
    /\ NormIdle
    /\ PkgIdle
    /\ \E platform \in BOOLEAN :
         mx = [platform |-> platform, heap |-> EmptyDict, refs |-> {},
               yielded |-> [e \in 1..Enumerations |-> <<>>],
               e |-> 1, i |-> 1, mutations |-> 0, probes |-> {}]

MatrixNext == MxYield \/ MxMutate \/ MxEnumerateAgain \/ MxProbe

MatrixSpec == MatrixInit /\ [][MatrixNext]_vars

\* C13: the rows of a later enumeration are those of the first, whatever a
\* consumer did to the variable maps and flag lists it was handed.
C13_EnumerationsAgree ==
    \A e \in 1..Enumerations : \A i \in Idx(mx.yielded[e]) :
        /\ mx.yielded[e][i] = mx.yielded[1][i]
        /\ mx.yielded[e][i].arch = configs[i].arch
        /\ mx.yielded[e][i].defines
              = cross_compile_configs(stage2_install, mx.platform)[i].defines
        /\ mx.yielded[e][i].cflags = config_cflags(i, mx.platform)

C13_Witness ==
    /\ Len(mx.yielded[2]) = Len(configs)
    /\ mx.mutations = MaxMutations
    /\ mx.heap[<<1, 1, "cflags">>] # config_cflags(1, mx.platform)
    /\ mx.heap[<<1, 4, "defines">>]
          # cross_compile_configs(stage2_install, mx.platform)[4].defines
    /\ mx.heap[<<2, 1, "cflags">>] = config_cflags(1, mx.platform)

\* C14 as stated: a helper asked about an identifier outside the table
\* answers with a configuration error, never with a default.
C14_UnknownArchRejected ==
    \A p \in mx.probes :
        p.arch \notin Archs =>
            /\ p.api = "ConfigurationError"
            /\ p.toolchain_lib = "ConfigurationError"

-----------------------------------------------------------------------------
(* Normalization keeps to the library it is working on. *)

\* The names that belong to one library: its real file, its SONAME path and
\* its development link.
NamesOf(l, h) ==
    {RealLib(l, h, ClangVersion), FormatSoname(l, h, ClangVersion), DevLib(l, h)}

\* A step of the normalization changes only entries of the library it visits.
StepTouchesOwnLibraryOnly ==
    \A n \in DOMAIN libdir :
        libdir'[n] # libdir[n] =>
            \E l \in DOMAIN libs(norm_host) :
                /\ l \notin visited
                /\ l \in visited'
                /\ n \in NamesOf(l, norm_host)
                /\ \A o \in DOMAIN libs(norm_host) \ {l} : n \notin NamesOf(o, norm_host)

\* After a successful normalization every library whose real file was there
\* has a file at its SONAME path.
EveryLibraryKeepsItsSoname ==
    norm_status = "done" =>
        \A l \in DOMAIN libs(norm_host) :
            isfile(libdir0, RealLib(l, norm_host, ClangVersion))
                => isfile(libdir, SonameLib(l, norm_host, ClangVersion))

\* C25: normalizing one library never deletes or renames a file of another
\* library of the set, so visiting libc++ deletes no libc++abi file, for any
\* directory contents and any visiting order; and after a successful
\* normalization every library still has its SONAME-named file.
C25_NormalizationKeepsToItsLibrary ==
    [][StepTouchesOwnLibraryOnly]_vars /\ []EveryLibraryKeepsItsSoname

C25_Witness ==
    /\ norm_status = "running"
    /\ visited = {S_libcxx}
    /\ libdir0[DevLib(S_libcxx, norm_host)].kind = "link"
    /\ libdir[DevLib(S_libcxx, norm_host)] = Absent
    /\ all_libs(libdir0, S_libcxxabi) = NamesOf(S_libcxxabi, norm_host)
    /\ \A n \in NamesOf(S_libcxxabi, norm_host) : libdir[n] = libdir0[n]

-----------------------------------------------------------------------------
(* The environment of the engine calls. *)

Stage2Override == <<stage1_install, "lib64">>

\* C24: ORIG_ENV is never modified, and the library search path stage 2 adds
\* is in the environment of the engine calls of stage 2 and of no other
\* step: every other call gets ORIG_ENV as it was when the run started.
C24_OrigEnvNeverModified ==
    /\ orig_env \in OrigEnvs
    /\ \A i \in Idx(calls) :
         IF calls[i].step.kind = "stage2"
         THEN /\ calls[i].env["LD_LIBRARY_PATH"] = Stage2Override
              /\ \A k \in DOMAIN orig_env \ {"LD_LIBRARY_PATH"} :
                    calls[i].env[k] = orig_env[k]
         ELSE /\ calls[i].env = orig_env
              /\ "LD_LIBRARY_PATH" \in DOMAIN calls[i].env
                    => calls[i].env["LD_LIBRARY_PATH"] # Stage2Override

C24_Witness ==
    /\ status = "exit0"
    /\ "LD_LIBRARY_PATH" \in DOMAIN orig_env
    /\ \E i \in Idx(calls) : calls[i].step.kind = "windows"
    /\ \E i, j \in Idx(calls) :
         /\ i < j
         /\ calls[i].step.kind = "stage2"
         /\ calls[j].step.kind = "omp"
         /\ calls[i].env # calls[j].env

-----------------------------------------------------------------------------
(* The C++ standard-library runtime. *)

\* The engine is never invoked for libcxx.
NoLibcxxCall ==
    \A i \in Idx(calls) :
        calls[i].step.kind # "libcxx" /\ calls[i].cwd.pre # "lib/libcxx-"

-----------------------------------------------------------------------------
(* The file name of the fuzzing runtime. *)

\* C23: the built fuzzing runtime of i386 is looked up under a file name
\* with i686, that of every other architecture under a name with the
\* architecture id unchanged, and the i386 artifact is installed into the
\* subdirectory named i386.
C23_FuzzerFilenameUsesI686 ==
    \A k \in Idx(installs) :
        installs[k].kind = "fuzzer" =>
            LET a == installs[k]
            IN  /\ a.src.file.pre = "libclang_rt.fuzzer-"
                /\ a.src.file.suf = "-android.a"
                /\ a.src.file.arch = IF a.arch = S_i386 THEN S_i686 ELSE a.arch
                /\ a.src.dir[1] = out_path(StepId("fuzzer", a.arch, a.ndk))
                /\ a.file = "libFuzzer.a"
                /\ a.arch = S_i386 => a.dir.sub = S_i386

C23_Witness ==
    \E k, l \in Idx(installs) :
        /\ installs[k].kind = "fuzzer" /\ installs[l].kind = "fuzzer"
        /\ installs[k].arch = S_i386 /\ installs[k].ndk
        /\ installs[k].src.file.arch = S_i686
        /\ installs[k].dir.sub = S_i386
        /\ installs[l].arch = S_mips64
        /\ installs[l].src.file.arch = S_mips64

-----------------------------------------------------------------------------
(* The secondary-host builds. *)

\* Stage 2 has completed: its install call succeeded before call i.
Stage2CompletedBefore(i) ==
    /\ \E j \in 1..(i - 1) :
         /\ calls[j].step.kind = "stage2"
         /\ calls[j].cmd = "install"
         /\ calls[j].ok
    /\ \A j \in 1..(i - 1) : calls[j].step.kind = "stage2" => calls[j].ok

\* C21: before any engine call of a Windows build, NATIVE.cmake naming clang
\* and clang++ of the stage-2 install has been written into that build's
\* working directory, and stage 2 has completed successfully.
C21_NativeFragmentBeforeWindowsBuild ==
    \A i \in Idx(calls) :
        calls[i].step.kind = "windows" =>
            /\ \E w \in written :
                 /\ w.dir = calls[i].cwd
                 /\ w.file = "NATIVE.cmake"
                 /\ w.at < i
                 /\ w.text = [CMAKE_C_COMPILER |-> <<stage2_install, "bin", "clang">>,
                              CMAKE_CXX_COMPILER |-> <<stage2_install, "bin", "clang++">>]
            /\ Stage2CompletedBefore(i)

C21_Witness ==
    /\ \E i \in Idx(calls) :
         /\ calls[i].step = StepId("windows", <<>>, TRUE)
         /\ calls[i].cmd = "install"
    /\ \E w1, w2 \in written : w1.dir # w2.dir /\ w1.at < w2.at

====
